---- MODULE Spec2Model ----
(***************************************************************************)
(* Model of the explicit-secrecy taint analysis (src/analysis.py): the     *)
(* abstract State, the expression evaluator, the statement transformer,    *)
(* the join of predecessor states, the round-robin solver and the final    *)
(* reporting pass of run_analysis.                                         *)
(***************************************************************************)
EXTENDS Integers, Sequences, FiniteSets

VARIABLES
    public,     \* the declared public variables (public_variables)
    blocks,     \* run_analysis: the blocks of the CFG, in the order they are visited
    states,     \* round_robin_iteration: the stored exit state of each block
    changed,    \* round_robin_iteration: whether this pass changed a stored state
    cursor,     \* the position in blocks of the block visited next
    pc,         \* run_analysis: "solve", "final", "done" or "raised"
    results,    \* run_analysis: the findings, <<block id, statement index>>
    new_state,  \* the State a block's statements are replayed on
    last,       \* StmtSpec: the operation applied last, with its results
    smashed,    \* StmtSpec: history, variables with a live TAINTED indexed write
    steps,      \* StmtSpec: the number of operations applied so far
    raised,     \* the exception that ended the run, "" while none
    docstring,  \* run_analysis: ast.get_docstring(tree)
    public_variables,   \* run_analysis: what get_public_variables_from_docstring returned
    debug,      \* run_analysis: the debug flag
    output      \* run_analysis: the lines yielded so far

vars ==
    <<public, blocks, states, changed, cursor, pc, results, new_state, last, smashed, steps, raised,
      docstring, public_variables, debug, output>>
progVars == <<blocks, states, changed, cursor, pc, results>>
stmtVars == <<last, smashed, steps>>
inputVars == <<docstring, public_variables, debug>>

(***************************************************************************)
(* Bounds of the model.                                                    *)
(***************************************************************************)
MaxLocs == 2    \* list literals evaluated on one State (add_location calls)
MaxSteps == 4   \* StmtSpec: operations applied to the State
MaxPasses == 8  \* passes of the solver run as a function (round_robin_passes)
MaxPathLen == 5 \* blocks on a path of the CFG (CfgPaths)
MaxLines == 2   \* DocSpec: lines of the docstring

(***************************************************************************)
(* TaintStatus (analysis.py 13-21).  Evaluation results are TAINTED,       *)
(* UNTAINTED, None or the name of a heap location; all are strings here.   *)
(***************************************************************************)
TAINTED == "TAINTED"
UNTAINTED == "UNTAINTED"
None == "None"

lub(left, right) == IF TAINTED \in {left, right} THEN TAINTED ELSE UNTAINTED

\* type(loc) == str: an evaluation result that is a location name
IsLoc(v) == v \notin {TAINTED, UNTAINTED, None}

Digits == <<"0", "1", "2", "3", "4", "5", "6", "7", "8", "9">>

\* f"{self.block_id}-loc{self.next_loc}"
LocName(block_id, n) == block_id \o "-loc" \o Digits[n + 1]

\* value bound to the parameter of In, evaluated once (a local assignment)
Let(value, In(_)) == CHOOSE result \in {In(v) : v \in {value}} : TRUE

(***************************************************************************)
(* Python dicts as functions.                                              *)
(***************************************************************************)
EmptyDict == [k \in {} |-> None]

DictSet(d, key, value) ==
    [k \in DOMAIN d \cup {key} |-> IF k = key THEN value ELSE d[k]]

DictUpdate(d, other) ==
    [k \in DOMAIN d \cup DOMAIN other |-> IF k \in DOMAIN other THEN other[k] ELSE d[k]]

(***************************************************************************)
(* State (analysis.py 39-116).                                             *)
(***************************************************************************)
State(ppv, hv, hl, block_id) ==
    [public_primitive_vars |-> ppv, heap_vars |-> hv, heap_locations |-> hl,
     block_id |-> block_id, next_loc |-> 0]

\* faulty variant of get_taint_status: a variable in neither map is reported UNTAINTED
get_taint_status_default_untainted(state, variable) ==
    IF variable \in state.public_primitive_vars THEN UNTAINTED
    ELSE IF variable \in DOMAIN state.heap_vars
         THEN state.heap_locations[state.heap_vars[variable]]
         ELSE UNTAINTED

get_taint_status(state, variable) ==
    IF variable \in state.public_primitive_vars THEN UNTAINTED
    ELSE IF variable \in DOMAIN state.heap_vars
         THEN state.heap_locations[state.heap_vars[variable]]
         ELSE TAINTED

\* faulty variant of set_taint_status: binding a variable to a location always seeds the location with the
\* variable's previous status, also when the location has a status
set_taint_status_reseed(state, variable, result) ==
    LET prev_ts == get_taint_status(state, variable)
        ppv == state.public_primitive_vars
    IN  CASE result = None -> state
          [] result = TAINTED /\ variable \in ppv ->
                [state EXCEPT !.public_primitive_vars = ppv \ {variable}]
          [] result = UNTAINTED ->
                [state EXCEPT !.public_primitive_vars = ppv \cup {variable}]
          [] IsLoc(result) ->
                [state EXCEPT
                    !.public_primitive_vars = ppv \ {variable},
                    !.heap_vars = DictSet(state.heap_vars, variable, result),
                    !.heap_locations = DictSet(state.heap_locations, result, prev_ts)]
          [] OTHER -> state

\* faulty variant of set_taint_status: a neutral result (None) is handled like UNTAINTED
set_taint_status_neutral_public(state, variable, result) ==
    LET prev_ts == get_taint_status(state, variable)
        ppv == state.public_primitive_vars
    IN  CASE result = TAINTED /\ variable \in ppv ->
                [state EXCEPT !.public_primitive_vars = ppv \ {variable}]
          [] result \in {UNTAINTED, None} ->
                [state EXCEPT !.public_primitive_vars = ppv \cup {variable}]
          [] IsLoc(result) ->
                [state EXCEPT
                    !.public_primitive_vars = ppv \ {variable},
                    !.heap_vars = DictSet(state.heap_vars, variable, result),
                    !.heap_locations =
                        IF state.heap_locations[result] = None
                        THEN DictSet(state.heap_locations, result, prev_ts)
                        ELSE state.heap_locations]
          [] OTHER -> state

\* faulty variant of set_taint_status: a neutral result (None) is handled like TAINTED
set_taint_status_neutral_tainted(state, variable, result) ==
    LET prev_ts == get_taint_status(state, variable)
        ppv == state.public_primitive_vars
    IN  CASE result \in {None, TAINTED} /\ variable \in ppv ->
                [state EXCEPT !.public_primitive_vars = ppv \ {variable}]
          [] result = UNTAINTED ->
                [state EXCEPT !.public_primitive_vars = ppv \cup {variable}]
          [] IsLoc(result) ->
                [state EXCEPT
                    !.public_primitive_vars = ppv \ {variable},
                    !.heap_vars = DictSet(state.heap_vars, variable, result),
                    !.heap_locations =
                        IF state.heap_locations[result] = None
                        THEN DictSet(state.heap_locations, result, prev_ts)
                        ELSE state.heap_locations]
          [] OTHER -> state

set_taint_status(state, variable, result) ==
    LET prev_ts == get_taint_status(state, variable)
        ppv == state.public_primitive_vars
    IN  CASE result = None -> state
          [] result = TAINTED /\ variable \in ppv ->
                [state EXCEPT !.public_primitive_vars = ppv \ {variable}]
          [] result = UNTAINTED ->
                [state EXCEPT !.public_primitive_vars = ppv \cup {variable}]
          [] IsLoc(result) ->
                [state EXCEPT
                    !.public_primitive_vars = ppv \ {variable},
                    !.heap_vars = DictSet(state.heap_vars, variable, result),
                    !.heap_locations =
                        IF state.heap_locations[result] = None
                        THEN DictSet(state.heap_locations, result, prev_ts)
                        ELSE state.heap_locations]
          [] OTHER -> state   \* TAINTED, variable not public: no case matches

\* returns the new location and the state holding it
add_location(state, result) ==
    LET loc == LocName(state.block_id, state.next_loc)
    IN  [val |-> loc,
         state |-> [state EXCEPT !.next_loc = state.next_loc + 1,
                                 !.heap_locations = DictSet(state.heap_locations, loc, result)],
         exc |-> ""]

get_location(state, variable) == state.heap_vars[variable]

update_location_taint_status(state, loc, ts) ==
    [state EXCEPT !.heap_locations = DictSet(state.heap_locations, loc, ts)]

copy_for_block(state, block_id) ==
    State(state.public_primitive_vars, state.heap_vars, state.heap_locations, block_id)

join_for_block(state, other, block_id) ==
    State(state.public_primitive_vars \cap other.public_primitive_vars,
          DictUpdate(state.heap_vars, other.heap_vars),
          DictUpdate(state.heap_locations, other.heap_locations),
          block_id)

(***************************************************************************)
(* Syntax trees of the subject program (the ast node kinds the analysis    *)
(* matches on).                                                            *)
(***************************************************************************)
Constant == [kind |-> "Constant"]
Name(id) == [kind |-> "Name", id |-> id]
BinOp(left, right) == [kind |-> "BinOp", left |-> left, right |-> right]
List(elts) == [kind |-> "List", elts |-> elts]
Subscript(id) == [kind |-> "Subscript", id |-> id]    \* Subscript(value=Name(id))
Call == [kind |-> "Call"]                             \* any other expression kind

DocString == [kind |-> "DocString"]                   \* Expr(Constant(str))
Assign(id, value) == [kind |-> "Assign", id |-> id, value |-> value]
AssignSubscript(id, value) == [kind |-> "AssignSubscript", id |-> id, value |-> value]
PrintCall(value) == [kind |-> "Print", value |-> value]
Control == [kind |-> "Control"]                       \* If, While, Pass
Declassify(id) == [kind |-> "Declassify", id |-> id]  \* Expr(Call(declassify, [Name]))
Import == [kind |-> "Import"]

(***************************************************************************)
(* eval (analysis.py 119-146).  Returns the result, the state (a list      *)
(* literal adds a location) and the exception raised, "" if none.          *)
(***************************************************************************)
Return(val, state) == [val |-> val, state |-> state, exc |-> ""]
Raise(exc, state) == [val |-> None, state |-> state, exc |-> exc]

RECURSIVE eval(_, _)
RECURSIVE eval_elts(_, _, _, _)

\* faulty variant of eval_elts: the loop does not stop at the first TAINTED
\* element, ts is the result of the last element
RECURSIVE eval_elts_last(_, _, _, _)
eval_elts_last(elts, n, ts, state) ==
    IF n > Len(elts) THEN Return(ts, state)
    ELSE Let(eval(elts[n], state), LAMBDA r :
             IF r.exc # "" THEN r
             ELSE eval_elts_last(elts, n + 1, r.val, r.state))

\* the loop over elts of a List: ts is the result of the last element
\* evaluated, the loop breaks at the first TAINTED one
eval_elts(elts, n, ts, state) ==
    IF n > Len(elts) THEN Return(ts, state)
    ELSE Let(eval(elts[n], state), LAMBDA r :
             IF r.exc # "" THEN r
             ELSE IF r.val = TAINTED THEN Return(TAINTED, r.state)
             ELSE eval_elts(elts, n + 1, r.val, r.state))

eval(expr, state) ==
    CASE expr.kind = "Constant" -> Return(None, state)
      [] expr.kind = "Name" ->
            IF expr.id \in DOMAIN state.heap_vars
            THEN Return(state.heap_vars[expr.id], state)
            ELSE Return(get_taint_status(state, expr.id), state)
      [] expr.kind = "BinOp" ->
            Let(eval(expr.left, state), LAMBDA l :
                IF l.exc # "" THEN l
                ELSE Let(eval(expr.right, l.state), LAMBDA r :
                         IF r.exc # "" THEN r
                         ELSE Return(lub(l.val, r.val), r.state)))
      [] expr.kind = "List" ->
            Let(eval_elts(expr.elts, 1, None, state), LAMBDA e :
                IF e.exc # "" THEN e ELSE add_location(e.state, e.val))
      [] expr.kind = "Subscript" ->
            IF expr.id \in DOMAIN state.heap_vars
            THEN Return(state.heap_locations[state.heap_vars[expr.id]], state)
            ELSE Raise("KeyError", state)
      [] OTHER -> Raise("NotImplementedError", state)

(***************************************************************************)
(* state_transformer (analysis.py 152-176).  Returns the state, whether a  *)
(* Warning is returned, and the exception raised.                          *)
(***************************************************************************)
Done(state, warning) == [state |-> state, warning |-> warning, exc |-> ""]
Fail(r) == [state |-> r.state, warning |-> FALSE, exc |-> r.exc]

state_transformer(statement, state) ==
    CASE statement.kind = "DocString" -> Done(state, FALSE)
      [] statement.kind = "Assign" ->
            Let(eval(statement.value, state), LAMBDA r :
                IF r.exc # "" THEN Fail(r)
                ELSE Done(set_taint_status(r.state, statement.id, r.val), FALSE))
      [] statement.kind = "AssignSubscript" ->
            Let(eval(statement.value, state), LAMBDA r :
                IF r.exc # "" THEN Fail(r)
                ELSE IF statement.id \notin DOMAIN r.state.heap_vars
                THEN Fail(Raise("KeyError", r.state))
                ELSE Done(update_location_taint_status(
                              r.state, get_location(r.state, statement.id), r.val), FALSE))
      [] statement.kind = "Print" ->
            Let(eval(statement.value, state), LAMBDA r :
                IF r.exc # "" THEN Fail(r)
                ELSE IF r.val = TAINTED THEN Done(r.state, TRUE)
                ELSE IF r.val \in {UNTAINTED, None} THEN Done(r.state, FALSE)
                ELSE Done(r.state, r.state.heap_locations[r.val] = TAINTED))
      [] statement.kind = "Control" -> Done(state, FALSE)
      [] OTHER -> Fail(Raise("NotImplementedError", state))

(***************************************************************************)
(* join_states (analysis.py 179-185).                                      *)
(***************************************************************************)
RECURSIVE join_from(_, _, _, _)
join_from(joined, pred_states, n, block_id) ==
    IF n > Len(pred_states) THEN joined
    ELSE join_from(join_for_block(joined, pred_states[n], block_id), pred_states, n + 1,
                   block_id)

join_states(pred_states, block_id) ==
    join_from(copy_for_block(pred_states[1], block_id), pred_states, 2, block_id)

(***************************************************************************)
(* get_public_variables_from_docstring (analysis.py 229-238).  The         *)
(* docstring is absent (ast.get_docstring gives None) or the sequence of   *)
(* its lines (ds.split('\n')); a line is whether it starts with            *)
(* 'expsec_public:' and, if it does, the characters after that prefix      *)
(* (line[14:]), one string per character.                                  *)
(***************************************************************************)
NoDocstring == [present |-> FALSE, lines |-> <<>>]
DocstringOf(lines) == [present |-> TRUE, lines |-> lines]
ProseLine == [directive |-> FALSE, text |-> <<>>]
DirectiveLine(text) == [directive |-> TRUE, text |-> text]

\* str.strip(): without the leading and trailing spaces
strip(text) ==
    LET inked == {k \in 1 .. Len(text) : text[k] # " "}
    IN  IF inked = {} THEN <<>>
        ELSE SubSeq(text, CHOOSE k \in inked : \A m \in inked : k <= m,
                          CHOOSE k \in inked : \A m \in inked : k >= m)

\* str.split(', '): the pieces between the separators, left to right
RECURSIVE split_from(_, _, _, _)
split_from(text, k, piece, pieces) ==
    IF k > Len(text) THEN Append(pieces, piece)
    ELSE IF text[k] = "," /\ k < Len(text) /\ text[k + 1] = " "
         THEN split_from(text, k + 2, "", Append(pieces, piece))
         ELSE split_from(text, k + 1, piece \o text[k], pieces)

split(text) == split_from(text, 1, "", <<>>)

\* what the function returns: a set of names, or None when the loop over the
\* lines ends without a return statement
ReturnsSet(names) == [none |-> FALSE, names |-> names]
ReturnsNone == [none |-> TRUE, names |-> {}]

RECURSIVE directive_from(_, _)
directive_from(lines, n) ==
    IF n > Len(lines) THEN ReturnsNone
    ELSE IF lines[n].directive
         THEN LET names == split(strip(lines[n].text))
              IN  ReturnsSet({names[k] : k \in 1 .. Len(names)})
         ELSE directive_from(lines, n + 1)

get_public_variables_from_docstring(ds) ==
    IF ~ds.present THEN ReturnsSet({}) ELSE directive_from(ds.lines, 1)

\* the docstrings of the analysed programs: none, "expsec_public: p", and a
\* line of prose followed by "expsec_public: a, p"
ProgramDocstrings ==
    {NoDocstring,
     DocstringOf(<<DirectiveLine(<<" ", "p">>)>>),
     DocstringOf(<<ProseLine, DirectiveLine(<<" ", "a", ",", " ", "p">>)>>)}

(***************************************************************************)
(* StmtSpec: one State under every sequence of statements of the subject   *)
(* language.  The State is the new_state of a block of a loop body: the    *)
(* block may be entered again, its exit state coming back through the      *)
(* loop header joined with the initial state.                              *)
(***************************************************************************)
Names == {"a", "b", "p", "s"}      \* variables the statements read
Targets == {"a", "b"}             \* variables the statements assign

Exprs ==
    {Constant, Name("a"), Name("b"), Name("p"), Name("s"), Subscript("a"), Subscript("b"),
     BinOp(Name("a"), Name("s")), BinOp(Name("a"), Constant), BinOp(Name("p"), Name("b")),
     BinOp(Constant, Constant),
     List(<<Constant>>), List(<<Name("p")>>), List(<<Name("s")>>),
     List(<<Name("s"), Constant>>), List(<<Constant, Name("s")>>), List(<<Name("a")>>),
     Call}

Statements ==
    {Assign(v, e) : v \in Targets, e \in Exprs}
    \cup {AssignSubscript(v, e) : v \in Targets, e \in Exprs}
    \cup {PrintCall(e) : e \in Exprs}
    \cup {Declassify(v) : v \in Targets}
    \cup {DocString, Control, Import}

InitialState(names) == State(names, EmptyDict, EmptyDict, "")

\* tainted_at: for a statement whose value is a list literal, the position of
\* the first element that evaluates to TAINTED, 0 if there is none
Operation(op, kind, id, val, warning, tainted_at) ==
    [op |-> op, kind |-> kind, id |-> id, val |-> val, warning |-> warning,
     tainted_at |-> tainted_at]

first_tainted(statement, state) ==
    IF statement.kind \notin {"Assign", "AssignSubscript", "Print"} THEN 0
    ELSE IF statement.value.kind # "List" THEN 0
    ELSE LET elts == statement.value.elts
             hits == {k \in 1 .. Len(elts) : eval(elts[k], state).val = TAINTED}
         IN  IF hits = {} THEN 0 ELSE CHOOSE k \in hits : \A m \in hits : k <= m

StmtInit ==
    /\ docstring \in {NoDocstring, DocstringOf(<<DirectiveLine(<<" ", "p">>)>>)}
    /\ public_variables = get_public_variables_from_docstring(docstring)
    /\ public = public_variables.names
    /\ debug = FALSE
    /\ output = <<>>
    /\ new_state = copy_for_block(InitialState(public), "1")
    /\ last = Operation("init", "", "", None, FALSE, 0)
    /\ smashed = {}
    /\ steps = 0
    /\ raised = ""
    /\ blocks = <<>> /\ states = EmptyDict /\ changed = FALSE /\ cursor = 0
    /\ pc = "statements" /\ results = <<>>

\* the variables whose live TAINTED indexed write survives the statement:
\* the location is not written by this indexed assignment, not allocated
\* again by a list literal, and the variable is not bound to another location
Surviving(statement, r, t) ==
    {a \in smashed :
        LET loc == new_state.heap_vars[a]
        IN  /\ ~(statement.kind = "AssignSubscript"
                  /\ get_location(r.state, statement.id) = loc)
            /\ \A n \in new_state.next_loc .. (t.state.next_loc - 1) :
                  LocName(new_state.block_id, n) # loc
            /\ ~(statement.kind = "Assign" /\ statement.id = a
                  /\ IsLoc(r.val) /\ r.val # loc)}

Transform(statement) ==
    /\ raised = ""
    /\ steps < MaxSteps
    /\ LET t == state_transformer(statement, new_state)
           r == IF statement.kind \in {"Assign", "AssignSubscript", "Print"}
                THEN eval(statement.value, new_state)
                ELSE Return(None, new_state)
       IN  /\ t.state.next_loc <= MaxLocs
           /\ new_state' = t.state
           /\ raised' = t.exc
           /\ last' = Operation("stmt", statement.kind,
                                IF statement.kind \in {"Assign", "AssignSubscript", "Declassify"}
                                THEN statement.id ELSE "",
                                r.val, t.warning, first_tainted(statement, new_state))
           /\ smashed' =
                IF t.exc # "" THEN {}
                ELSE Surviving(statement, r, t)
                     \cup (IF statement.kind = "AssignSubscript" /\ r.val = TAINTED
                           THEN {v \in DOMAIN t.state.heap_vars :
                                    t.state.heap_vars[v] = t.state.heap_vars[statement.id]}
                           ELSE {})
    /\ steps' = steps + 1
    /\ UNCHANGED <<public, progVars, inputVars, output>>

\* the block is entered again through the loop header, whose predecessors are
\* the entry block (exit state: the initial state) and this block
Reenter ==
    /\ raised = ""
    /\ steps < MaxSteps
    /\ new_state' = copy_for_block(
            join_states(<<copy_for_block(InitialState(public), "0"), new_state>>, "2"), "1")
    /\ last' = Operation("reenter", "", "", None, FALSE, 0)
    /\ smashed' = {}
    /\ steps' = steps + 1
    /\ UNCHANGED <<public, raised, progVars, inputVars, output>>

StmtNext ==
    \/ \E statement \in Statements : Transform(statement)
    \/ Reenter

StmtSpec == StmtInit /\ [][StmtNext]_vars

(***************************************************************************)
(* The CFG (scalpel Block: id, predecessors, statements) and the solver    *)
(* round_robin_iteration (analysis.py 188-226).                            *)
(***************************************************************************)
Block(id, predecessors, statements) ==
    [id |-> id, predecessors |-> predecessors, statements |-> statements]

\* the lines run_analysis yields: <<kind, block id, statement index>>
AstDump == <<"ast", "", 0>>                   \* ast.dump(tree, indent=2)
StatesHeader == <<"states", "", 0>>           \* 'All block exit states'
StateLine(id) == <<"state", id, 0>>           \* f'Block #{block_id}: {state}'
StateLines(blks) == [k \in 1 .. Len(blks) |-> StateLine(blks[k].id)]
Banner == <<"banner", "", 0>>                 \* "Found the following tainted outputs in ..."
Finding(result) == <<"finding", result[1], result[2]>>    \* warning.format(source)

\* for statement in block.statements: state_transformer(statement, new_state);
\* warnings holds the indexes of the statements that returned a Warning
RECURSIVE replay(_, _, _, _)
replay(statements, j, state, warnings) ==
    IF j > Len(statements) THEN [state |-> state, warnings |-> warnings, exc |-> ""]
    ELSE Let(state_transformer(statements[j], state), LAMBDA t :
             IF t.exc # "" THEN [state |-> t.state, warnings |-> warnings, exc |-> t.exc]
             ELSE replay(statements, j + 1, t.state,
                         IF t.warning THEN Append(warnings, j) ELSE warnings))

\* the state a block is entered with: the initial state, or the join of the
\* stored exit states of its predecessors
entry_state(block, stored, initial_state) ==
    IF Len(block.predecessors) = 0
    THEN copy_for_block(initial_state, block.id)
    ELSE join_states([k \in 1 .. Len(block.predecessors) |-> stored[block.predecessors[k]]],
                     block.id)

\* one visit of a block: its entry state, then its statements in order
visit(block, stored, initial_state) ==
    Let(entry_state(block, stored, initial_state), LAMBDA entry :
        replay(block.statements, 1, entry, <<>>))

\* faulty variant of SolverVisit: the Warnings of the fixpoint passes are
\* appended to results
SolverVisit_collecting ==
    /\ pc = "solve"
    /\ cursor <= Len(blocks)
    /\ \E block \in {blocks[cursor]} :
       \E v \in {visit(block, states, InitialState(public))} :
           IF v.exc # ""
           THEN /\ raised' = v.exc
                /\ pc' = "raised"
                /\ UNCHANGED <<states, changed, cursor, new_state, results>>
           ELSE /\ new_state' = v.state
                /\ changed' = (changed \/ states[block.id] # v.state)
                /\ states' = [states EXCEPT ![block.id] = v.state]
                /\ results' = results \o [k \in 1 .. Len(v.warnings) |-> <<block.id, v.warnings[k]>>]
                /\ cursor' = cursor + 1
                /\ UNCHANGED <<pc, raised>>
    /\ UNCHANGED <<public, blocks, stmtVars, inputVars, output>>

\* faulty variant of SolverVisit: when a statement raises, the banner is yielded
\* before the exception leaves run_analysis
SolverVisit_best_effort ==
    /\ pc = "solve"
    /\ cursor <= Len(blocks)
    /\ \E block \in {blocks[cursor]} :
       \E v \in {visit(block, states, InitialState(public))} :
           IF v.exc # ""
           THEN /\ raised' = v.exc
                /\ pc' = "raised"
                /\ output' = Append(output, Banner)
                /\ UNCHANGED <<states, changed, cursor, new_state>>
           ELSE /\ new_state' = v.state
                /\ changed' = (changed \/ states[block.id] # v.state)
                /\ states' = [states EXCEPT ![block.id] = v.state]
                /\ cursor' = cursor + 1
                /\ UNCHANGED <<pc, raised, output>>
    /\ UNCHANGED <<public, blocks, results, stmtVars, inputVars>>

SolverVisit ==
    /\ pc = "solve"
    /\ cursor <= Len(blocks)
    /\ \E block \in {blocks[cursor]} :
       \E v \in {visit(block, states, InitialState(public))} :
           IF v.exc # ""
           THEN /\ raised' = v.exc
                /\ pc' = "raised"
                /\ UNCHANGED <<states, changed, cursor, new_state>>
           ELSE /\ new_state' = v.state
                /\ changed' = (changed \/ states[block.id] # v.state)
                /\ states' = [states EXCEPT ![block.id] = v.state]
                /\ cursor' = cursor + 1
                /\ UNCHANGED <<pc, raised>>
    /\ UNCHANGED <<public, blocks, results, stmtVars, inputVars, output>>

\* while changed: the pass changed a stored state, another pass starts
NextPass ==
    /\ pc = "solve"
    /\ cursor > Len(blocks)
    /\ changed
    /\ changed' = FALSE
    /\ cursor' = 1
    /\ UNCHANGED <<public, blocks, states, pc, results, new_state, raised, stmtVars, inputVars,
                   output>>

\* faulty variant of ReturnStates: the solver returns after a pass that changed
\* a stored state
ReturnStates_after_any_pass ==
    /\ pc = "solve"
    /\ cursor > Len(blocks)
    /\ pc' = "final"
    /\ cursor' = 1
    /\ output' = IF debug THEN output \o <<StatesHeader>> \o StateLines(blocks) ELSE output
    /\ UNCHANGED <<public, blocks, states, changed, results, new_state, raised, stmtVars, inputVars>>

\* return states: the pass changed nothing
ReturnStates ==
    /\ pc = "solve"
    /\ cursor > Len(blocks)
    /\ ~changed
    /\ pc' = "final"
    /\ cursor' = 1
    /\ output' = IF debug THEN output \o <<StatesHeader>> \o StateLines(blocks) ELSE output
    /\ UNCHANGED <<public, blocks, states, changed, results, new_state, raised, stmtVars, inputVars>>

(***************************************************************************)
(* run_analysis (analysis.py 241-284): the output iteration.               *)
(***************************************************************************)
FinalVisit ==
    /\ pc = "final"
    /\ cursor <= Len(blocks)
    /\ \E block \in {blocks[cursor]} :
       \E v \in {visit(block, states, InitialState(public))} :
           IF v.exc # ""
           THEN /\ raised' = v.exc
                /\ pc' = "raised"
                /\ UNCHANGED <<cursor, new_state, results>>
           ELSE /\ new_state' = v.state
                /\ results' = results \o [k \in 1 .. Len(v.warnings) |-> <<block.id, v.warnings[k]>>]
                /\ cursor' = cursor + 1
                /\ UNCHANGED <<pc, raised>>
    /\ UNCHANGED <<public, blocks, states, changed, stmtVars, inputVars, output>>

Finish ==
    /\ pc = "final"
    /\ cursor > Len(blocks)
    /\ pc' = "done"
    /\ output' = output \o (IF Len(results) > 0 THEN <<Banner>> ELSE <<>>)
                        \o [k \in 1 .. Len(results) |-> Finding(results[k])]
    /\ UNCHANGED <<public, blocks, states, changed, cursor, results, new_state, raised, stmtVars,
                   inputVars>>

(***************************************************************************)
(* The subject programs: straight-line programs, a branch with two arms    *)
(* and a merge block, and a loop (entry, header, body, exit).              *)
(***************************************************************************)
Line(body) == <<Block("1", <<>>, body)>>

Diamond(entry, then, else, merge) ==
    <<Block("1", <<>>, entry \o <<Control>>), Block("2", <<"1">>, then),
      Block("3", <<"1">>, else), Block("4", <<"2", "3">>, merge)>>

Loop(entry, body, exit) ==
    <<Block("1", <<>>, entry), Block("2", <<"1", "3">>, <<Control>>),
      Block("3", <<"2">>, body), Block("4", <<"2">>, exit)>>

LineBodies ==
    {<<Assign("a", Constant), PrintCall(Name("a"))>>,
     <<DocString, Assign("a", Name("p")), PrintCall(Name("a"))>>,
     <<Assign("a", Name("s")), PrintCall(Name("a"))>>,
     <<Assign("a", List(<<Name("s"), Constant>>)), PrintCall(Subscript("a"))>>,
     <<Assign("a", List(<<Name("p")>>)), Assign("a", Name("s")), PrintCall(Name("a"))>>,
     <<Assign("a", List(<<Name("p")>>)), PrintCall(BinOp(Name("a"), Name("s")))>>,
     <<Assign("a", List(<<Name("p")>>)), AssignSubscript("a", Constant), Assign("b", Name("a")),
       PrintCall(Name("b"))>>,
     <<PrintCall(Name("s")), PrintCall(Name("p")), PrintCall(Name("s"))>>,
     <<Assign("a", List(<<Name("p")>>)), AssignSubscript("a", Constant), PrintCall(Name("a"))>>}

EntryBodies ==
    {<<>>,
     <<Assign("a", List(<<Name("p")>>))>>,
     <<Assign("a", List(<<Name("p")>>)), Assign("b", List(<<Name("s")>>))>>,
     <<Assign("a", Name("p")), Assign("b", List(<<Name("p")>>))>>}

ArmBodies ==
    {<<>>,
     <<Assign("a", Name("p"))>>,
     <<Assign("a", Name("s"))>>,
     <<Assign("a", List(<<Name("p")>>))>>,
     <<AssignSubscript("a", Name("s"))>>,
     <<AssignSubscript("a", Name("p"))>>,
     <<Assign("a", BinOp(Name("b"), Name("a")))>>,
     <<Assign("p", Subscript("a")), AssignSubscript("a", Subscript("b")),
       AssignSubscript("b", Name("p"))>>,
     <<Declassify("a")>>,
     <<PrintCall(Name("a"))>>}

ExitBodies == {<<PrintCall(Name("a"))>>, <<PrintCall(Subscript("a")), PrintCall(Name("b"))>>}

\* examples/example8.py
Example8 ==
    <<Block("1", <<>>, <<Import, Assign("a", Constant), Assign("b", Call), Control>>),
      Block("2", <<"1">>, <<Declassify("a")>>),
      Block("3", <<"1">>, <<Assign("a", Name("b"))>>),
      Block("4", <<"2", "3">>, <<PrintCall(Name("a"))>>)>>

Programs ==
    {Line(body) : body \in LineBodies}
    \cup {Diamond(e, t, f, m) : e \in EntryBodies, t \in ArmBodies, f \in ArmBodies,
                                m \in ExitBodies}
    \cup {Loop(e, b, x) : e \in EntryBodies, b \in ArmBodies, x \in ExitBodies}
    \cup {Example8}

Reverse(seq) == [k \in 1 .. Len(seq) |-> seq[Len(seq) + 1 - k]]

Init ==
    /\ docstring \in ProgramDocstrings
    /\ public_variables = get_public_variables_from_docstring(docstring)
    /\ public = public_variables.names
    /\ debug \in BOOLEAN
    /\ output = (IF debug THEN <<AstDump>> ELSE <<>>)
    /\ \E program \in Programs : blocks \in {program, Reverse(program)}
    /\ states = [id \in {blocks[k].id : k \in 1 .. Len(blocks)} |->
                    copy_for_block(InitialState(public), id)]
    /\ changed = FALSE
    /\ cursor = 1
    /\ pc = "solve"
    /\ results = <<>>
    /\ new_state = InitialState(public)
    /\ raised = ""
    /\ last = Operation("init", "", "", None, FALSE, 0)
    /\ smashed = {}
    /\ steps = 0

Next == SolverVisit \/ NextPass \/ ReturnStates \/ FinalVisit \/ Finish

Spec == Init /\ [][Next]_vars

\* the analysis is one sequential loop: it always takes its next step
FairSpec == Spec /\ WF_vars(Next)

(***************************************************************************)
(* DocSpec: the start of run_analysis (analysis.py 246-260) for every      *)
(* docstring of up to MaxLines lines: the public variables are read from   *)
(* the docstring, the initial state is built from them and                 *)
(* round_robin_iteration copies it for every block.                        *)
(***************************************************************************)
\* the characters after 'expsec_public:' on a directive line
DirectiveTexts ==
    {<<" ", "p">>, <<" ", "a", ",", " ", "p">>, <<" ", "a", ",", " ", "a">>, <<>>,
     <<" ", "a", ",", "p">>, <<"p", " ", " ">>, <<" ", "p", ",", " ", " ", "a">>,
     <<" ", "a", ",", " ">>}

DocLines == {ProseLine} \cup {DirectiveLine(text) : text \in DirectiveTexts}

Docstrings ==
    {NoDocstring} \cup {DocstringOf(lines) : lines \in UNION {[1 .. n -> DocLines] : n \in 1 .. MaxLines}}

DocInit ==
    /\ docstring \in Docstrings
    /\ blocks = Line((IF docstring.present THEN <<DocString>> ELSE <<>>) \o <<PrintCall(Name("p"))>>)
    /\ pc = "docstring"
    /\ public_variables = ReturnsNone       \* not assigned yet
    /\ public = {}
    /\ debug = FALSE
    /\ output = <<>>
    /\ states = EmptyDict /\ changed = FALSE /\ cursor = 1 /\ results = <<>>
    /\ new_state = InitialState({})
    /\ raised = ""
    /\ last = Operation("init", "", "", None, FALSE, 0)
    /\ smashed = {}
    /\ steps = 0

\* public_variables = get_public_variables_from_docstring(tree)
GetPublicVariables ==
    /\ pc = "docstring"
    /\ public_variables' = get_public_variables_from_docstring(docstring)
    /\ pc' = "parsed"
    /\ UNCHANGED <<public, blocks, states, changed, cursor, results, new_state, raised, stmtVars,
                   docstring, debug, output>>

\* initial_state = State(public_variables, {}, {}, "") and the first lines of
\* round_robin_iteration: initial_state.copy_for_block for every block, where
\* public_primitive_vars.copy() raises AttributeError on None
CopyInitialState ==
    /\ pc = "parsed"
    /\ IF public_variables.none
       THEN /\ raised' = "AttributeError"
            /\ pc' = "raised"
            /\ UNCHANGED <<public, states>>
       ELSE /\ public' = public_variables.names
            /\ states' = [id \in {blocks[k].id : k \in 1 .. Len(blocks)} |->
                            copy_for_block(InitialState(public_variables.names), id)]
            /\ pc' = "solve"
            /\ UNCHANGED raised
    /\ UNCHANGED <<blocks, changed, cursor, results, new_state, stmtVars, inputVars, output>>

DocNext == GetPublicVariables \/ CopyInitialState

DocSpec == DocInit /\ [][DocNext]_vars

(***************************************************************************)
(* round_robin_iteration as a function of the block order: the passes of   *)
(* the actions above, run to the end.  status is "returned", "raised", or  *)
(* "running" when MaxPasses passes did not reach a pass without change.    *)
(***************************************************************************)
RECURSIVE round_robin_pass(_, _, _, _, _)
round_robin_pass(blks, n, stored, chg, initial_state) ==
    IF n > Len(blks) THEN [states |-> stored, changed |-> chg, exc |-> ""]
    ELSE LET v == visit(blks[n], stored, initial_state)
         IN  IF v.exc # "" THEN [states |-> stored, changed |-> chg, exc |-> v.exc]
             ELSE round_robin_pass(blks, n + 1, [stored EXCEPT ![blks[n].id] = v.state],
                                   chg \/ stored[blks[n].id] # v.state, initial_state)

RECURSIVE round_robin_passes(_, _, _, _)
round_robin_passes(blks, stored, initial_state, fuel) ==
    IF fuel = 0 THEN [states |-> stored, status |-> "running"]
    ELSE LET pass == round_robin_pass(blks, 1, stored, FALSE, initial_state)
         IN  IF pass.exc # "" THEN [states |-> pass.states, status |-> "raised"]
             ELSE IF pass.changed
                  THEN round_robin_passes(blks, pass.states, initial_state, fuel - 1)
                  ELSE [states |-> pass.states, status |-> "returned"]

round_robin_iteration(initial_state, blks) ==
    round_robin_passes(
        blks,
        [id \in {blks[k].id : k \in 1 .. Len(blks)} |-> copy_for_block(initial_state, id)],
        initial_state, MaxPasses)

\* every order of the same blocks
Orders(blks) ==
    {[k \in 1 .. Len(blks) |-> blks[perm[k]]] :
        perm \in {f \in [1 .. Len(blks) -> 1 .. Len(blks)] :
                    \A x, y \in 1 .. Len(blks) : f[x] = f[y] => x = y}}

(***************************************************************************)
(* The information flow of the subject program along one path of the CFG:  *)
(* which values are computed from a secret source, a variable that is not  *)
(* declared public and that no statement of the program assigns.  A value  *)
(* is "S" (computed from a source), "P" (not) or a list object.            *)
(***************************************************************************)
AssignedVars ==
    {blocks[k].statements[j].id :
        <<k, j>> \in {<<k, j>> \in (1 .. Len(blocks)) \X (1 .. 8) :
                        /\ j <= Len(blocks[k].statements)
                        /\ blocks[k].statements[j].kind = "Assign"}}

Secret(val, flow) == val = "S" \/ (val \in DOMAIN flow.objs /\ flow.objs[val] = "S")

Dep(secret) == IF secret THEN "S" ELSE "P"

Unassigned(id) == Dep(id \notin public /\ id \notin AssignedVars)

RECURSIVE flow_eval(_, _)
RECURSIVE flow_elts(_, _, _, _)

flow_elts(elts, n, secret, flow) ==
    IF n > Len(elts)
    THEN LET obj == "obj" \o Digits[Cardinality(DOMAIN flow.objs) + 1]
         IN  [val |-> obj, flow |-> [flow EXCEPT !.objs = DictSet(flow.objs, obj, Dep(secret))]]
    ELSE LET r == flow_eval(elts[n], flow)
         IN  flow_elts(elts, n + 1, secret \/ Secret(r.val, r.flow), r.flow)

flow_eval(expr, flow) ==
    CASE expr.kind = "Constant" -> [val |-> "P", flow |-> flow]
      [] expr.kind = "Name" ->
            [val |-> IF expr.id \in DOMAIN flow.env THEN flow.env[expr.id]
                     ELSE Unassigned(expr.id),
             flow |-> flow]
      [] expr.kind = "BinOp" ->
            LET l == flow_eval(expr.left, flow)
                r == flow_eval(expr.right, l.flow)
            IN  [val |-> Dep(Secret(l.val, r.flow) \/ Secret(r.val, r.flow)), flow |-> r.flow]
      [] expr.kind = "List" -> flow_elts(expr.elts, 1, FALSE, flow)
      [] expr.kind = "Subscript" ->
            [val |-> IF expr.id \in DOMAIN flow.env
                     THEN Dep(Secret(flow.env[expr.id], flow))
                     ELSE Unassigned(expr.id),
             flow |-> flow]
      [] OTHER -> [val |-> "P", flow |-> flow]

\* the flow after the statement, and whether the statement prints a secret
flow_statement(statement, flow) ==
    CASE statement.kind = "Assign" ->
            LET r == flow_eval(statement.value, flow)
            IN  [flow |-> [r.flow EXCEPT !.env = DictSet(r.flow.env, statement.id, r.val)],
                 leak |-> FALSE]
      [] statement.kind = "AssignSubscript" ->
            LET r == flow_eval(statement.value, flow)
            IN  [flow |-> IF statement.id \in DOMAIN r.flow.env
                             /\ r.flow.env[statement.id] \in DOMAIN r.flow.objs
                          THEN [r.flow EXCEPT !.objs = DictSet(r.flow.objs,
                                    r.flow.env[statement.id], Dep(Secret(r.val, r.flow)))]
                          ELSE r.flow,
                 leak |-> FALSE]
      [] statement.kind = "Print" ->
            LET r == flow_eval(statement.value, flow)
            IN  [flow |-> r.flow, leak |-> Secret(r.val, r.flow)]
      [] OTHER -> [flow |-> flow, leak |-> FALSE]

BlockOf(id) == CHOOSE b \in {blocks[k] : k \in 1 .. Len(blocks)} : b.id = id

\* the print statements, <<block id, statement index>>, that print a secret
\* along the path, from statement j of its block number n on
RECURSIVE Leaks(_, _, _, _)
Leaks(path, n, j, flow) ==
    IF n > Len(path) THEN {}
    ELSE IF j > Len(BlockOf(path[n]).statements) THEN Leaks(path, n + 1, 1, flow)
    ELSE LET f == flow_statement(BlockOf(path[n]).statements[j], flow)
         IN  (IF f.leak THEN {<<path[n], j>>} ELSE {}) \cup Leaks(path, n, j + 1, f.flow)

Successors(id) ==
    {blocks[k].id : k \in {k \in 1 .. Len(blocks) :
        \E m \in 1 .. Len(blocks[k].predecessors) : blocks[k].predecessors[m] = id}}

RECURSIVE PathsFrom(_, _)
PathsFrom(path, more) ==
    IF more = 0 THEN {path}
    ELSE {path} \cup UNION {PathsFrom(Append(path, id), more - 1) :
                                id \in Successors(path[Len(path)])}

\* the paths of the CFG from a block without predecessors, MaxPathLen blocks long at most
CfgPaths ==
    UNION {PathsFrom(<<blocks[k].id>>, MaxPathLen - 1) :
            k \in {k \in 1 .. Len(blocks) : Len(blocks[k].predecessors) = 0}}

Findings == {results[k] : k \in 1 .. Len(results)}

(***************************************************************************)
(* The claims.                                                             *)
(***************************************************************************)
Flow0 == [env |-> EmptyDict, objs |-> EmptyDict]

StoredStates == {states[id] : id \in DOMAIN states}

\* C1: soundness of the whole analysis.  When run_analysis has finished,
\* every print statement that prints, along some path of the CFG, a value
\* computed from a variable that is not declared public and never assigned
\* has a finding.
C1_Soundness ==
    pc = "done" => \A path \in CfgPaths : Leaks(path, 1, 1, Flow0) \subseteq Findings

\* C2: termination of the solver.  round_robin_iteration eventually leaves
\* its while loop: a pass changes no stored exit state and it returns (or an
\* exception ends the run).
C2_Termination == <>(pc # "solve")

\* C3: sweep-order independence.  When the solver has returned, the solver
\* run on the same blocks in any other order, if it returns too, returns the
\* same stored exit state for every block.
C3_OrderIndependent ==
    pc \in {"final", "done"} =>
        \A other \in Orders(blocks) :
            LET r == round_robin_iteration(InitialState(public), other)
            IN  r.status = "returned" => r.states = states

\* a read through the variable reports TAINTED: print(v) and print(v[j]) return
\* a Warning and v[j] evaluates to TAINTED
ReadsTainted(state, v) ==
    /\ v \in DOMAIN state.heap_vars
    /\ state_transformer(PrintCall(Name(v)), state).warning
    /\ state_transformer(PrintCall(Subscript(v)), state).warning
    /\ eval(Subscript(v), state).val = TAINTED

C5_DeclassifyUntaints ==
    (last.op = "stmt" /\ last.kind = "Declassify") =>
        raised = "" /\ get_taint_status(new_state, last.id) = UNTAINTED

\* C6: tainted assignment.  After a name assignment a = e with e evaluating to
\* TAINTED, a is in neither public_primitive_vars nor heap_vars,
\* get_taint_status(a) is TAINTED and print(a) yields a finding.
C6_TaintedAssign ==
    (last.op = "stmt" /\ last.kind = "Assign" /\ last.val = TAINTED /\ raised = "") =>
        /\ last.id \notin new_state.public_primitive_vars
        /\ last.id \notin DOMAIN new_state.heap_vars
        /\ get_taint_status(new_state, last.id) = TAINTED
        /\ state_transformer(PrintCall(Name(last.id)), new_state).warning

ScenarioA ==
    /\ blocks = Line(<<Assign("a", Constant), PrintCall(Name("a"))>>)
    /\ public = {}

\* C7 as claimed: Scenario A.  For a = 10; print(a) with no public directive
\* the analysis reports no finding.
C7_ScenarioANoFinding == (ScenarioA /\ pc = "done") => results = <<>>

\* C7 as amended: for a = 10; print(a) with no public directive the analysis
\* reports exactly one finding, for the print statement: the literal is
\* neutral and a stays TAINTED by default.
C7_ScenarioAOneFinding == (ScenarioA /\ pc = "done") => results = << <<"1", 2>> >>

C7_Witness == ScenarioA /\ pc = "done"

ScenarioE ==
    /\ "p" \in public \/ blocks = Example8
    /\ blocks \in {Example8}
                  \cup {Diamond(e, <<Declassify("a")>>, <<Assign("a", Name("p"))>>,
                                <<PrintCall(Name("a"))>>) : e \in EntryBodies}

\* C8: Scenario E.  With one arm of a branch declassifying a and the other
\* assigning a from a public value, the analysis runs to completion and
\* reports no finding for the print(a) after the merge.
C8_ScenarioE == ScenarioE => (pc # "raised" /\ (pc = "done" => results = <<>>))

\* C9: default-tainted.  In every state computed for a block, a variable that
\* no name assignment of the program targets and that is not declared public
\* is in neither public_primitive_vars nor heap_vars, and its taint status is
\* TAINTED.
C9_DefaultTainted ==
    \A v \in Names \ (AssignedVars \cup public) :
        \A state \in StoredStates \cup {new_state} :
            /\ v \notin state.public_primitive_vars
            /\ v \notin DOMAIN state.heap_vars
            /\ get_taint_status(state, v) = TAINTED

C9_Witness ==
    /\ pc = "done"
    /\ "s" \notin AssignedVars \cup public
    /\ \E state \in StoredStates :
            state.public_primitive_vars # {} /\ DOMAIN state.heap_vars # {}
    /\ <<"4", 1>> \in Findings

MoreTainted(S1, S2) ==
    /\ S1.public_primitive_vars \subseteq S2.public_primitive_vars
    /\ \A loc \in DOMAIN S2.heap_locations :
            S2.heap_locations[loc] = TAINTED =>
                loc \in DOMAIN S1.heap_locations /\ S1.heap_locations[loc] = TAINTED

AtLeastAsTainted(J, S1) ==
    /\ J.public_primitive_vars \subseteq S1.public_primitive_vars
    /\ \A loc \in DOMAIN S1.heap_locations :
            S1.heap_locations[loc] = TAINTED =>
                loc \in DOMAIN J.heap_locations /\ J.heap_locations[loc] = TAINTED

\* C10: join monotonicity.  For the stored exit states S1, S2 of the two
\* predecessors of a block, S1 more tainted than S2, the join of S1 and S2 in
\* either operand order is at least as tainted as S1.
C10_JoinMonotone ==
    \A k \in 1 .. Len(blocks) :
        Len(blocks[k].predecessors) = 2 =>
            \A m \in {1, 2} :
                LET S1 == states[blocks[k].predecessors[m]]
                    S2 == states[blocks[k].predecessors[3 - m]]
                IN  MoreTainted(S1, S2) =>
                        /\ AtLeastAsTainted(join_for_block(S1, S2, blocks[k].id), S1)
                        /\ AtLeastAsTainted(join_for_block(S2, S1, blocks[k].id), S1)

\* C11: fixpoint idempotence.  When round_robin_iteration has returned,
\* recomputing any block's exit state from the returned states (the join of
\* its predecessors' stored exit states, or the initial state, then its
\* statements in order) raises nothing and gives exactly the stored exit state
\* of the block, and one more full pass changes nothing.
C11_FixpointIdempotent ==
    pc \in {"final", "done"} =>
        /\ \A k \in 1 .. Len(blocks) :
                LET v == visit(blocks[k], states, InitialState(public))
                IN  v.exc = "" /\ v.state = states[blocks[k].id]
        /\ LET pass == round_robin_pass(blocks, 1, states, FALSE, InitialState(public))
           IN  pass.exc = "" /\ ~pass.changed /\ pass.states = states

\* the solver has returned for a loop whose body changed the stored states
C11_Witness ==
    /\ pc = "final"
    /\ Len(blocks) = 4
    /\ blocks[2].predecessors = <<"1", "3">>
    /\ states["3"] # copy_for_block(InitialState(public), "3")
    /\ states["2"] # copy_for_block(InitialState(public), "2")
    /\ DOMAIN states["4"].heap_vars # {}

\* C12 as claimed: no partial output on an unsupported construct.  When eval
\* or state_transformer has raised, run_analysis has yielded no line, with
\* and without the debug flag.
C12_NoOutputBeforeError ==
    (pc = "raised" /\ raised = "NotImplementedError") => output = <<>>

\* C12 as amended: when eval or state_transformer has raised, run_analysis has
\* yielded no line without the debug flag, and with it only the dump of the
\* syntax tree: never the exit states, the banner or a finding.
C12_OnlyTreeDumpBeforeError ==
    pc = "raised" => output = (IF debug THEN <<AstDump>> ELSE <<>>)

C12_Witness ==
    /\ pc = "raised"
    /\ raised = "NotImplementedError"
    /\ debug
    /\ cursor > 1

NoDirective(ds) == ~ds.present \/ \A k \in 1 .. Len(ds.lines) : ~ds.lines[k].directive

\* the text of the first directive line
FirstDirective(ds) ==
    ds.lines[CHOOSE k \in 1 .. Len(ds.lines) :
                /\ ds.lines[k].directive
                /\ \A m \in 1 .. k - 1 : ~ds.lines[m].directive].text

\* the exact form " <name>[, <name>]*", names of one character
WellFormed(text) ==
    /\ Len(text) % 3 = 2
    /\ \A k \in 1 .. Len(text) :
            CASE k % 3 = 1 -> text[k] = " "
              [] k % 3 = 2 -> text[k] \notin {" ", ","}
              [] OTHER -> text[k] = ","

Listed(text) == {text[k] : k \in {j \in 1 .. Len(text) : j % 3 = 2}}

\* C13: absent directive means empty public set.  For a docstring that is
\* missing or has no line starting with 'expsec_public:',
\* get_public_variables_from_docstring returns the empty set and the analysis
\* starts with no public variable; with a directive line of the exact form it
\* returns exactly the listed names.
C13_PublicFromDirective ==
    pc \in {"parsed", "solve", "raised"} =>
        /\ NoDirective(docstring) =>
                /\ ~public_variables.none
                /\ public_variables.names = {}
                /\ raised = ""
                /\ pc = "solve" => public = {}
        /\ (~NoDirective(docstring) /\ WellFormed(FirstDirective(docstring))) =>
                /\ ~public_variables.none
                /\ public_variables.names = Listed(FirstDirective(docstring))

\* C14: map disjointness.  In every state reached from an initial state
\* with empty heap_vars by name assignments, indexed assignments, joins and
\* copies, no variable is both in public_primitive_vars and a key of
\* heap_vars; after a name assignment of an UNTAINTED value the variable is
\* not a key of heap_vars.
C14_MapsDisjoint ==
    /\ new_state.public_primitive_vars \cap DOMAIN new_state.heap_vars = {}
    /\ (last.op = "stmt" /\ last.kind = "Assign" /\ last.val = UNTAINTED /\ raised = "") =>
            last.id \notin DOMAIN new_state.heap_vars

\* C15: a neutral assignment is a no-op on the state.  A name assignment
\* a = e whose right-hand side evaluates to the neutral value None leaves
\* public_primitive_vars, heap_vars and heap_locations unchanged, and
\* get_taint_status(a) is what it was before.
C15_NeutralAssignNoOp ==
    [][(last'.op = "stmt" /\ last'.kind = "Assign" /\ last'.val = None /\ raised' = "") =>
            /\ new_state'.public_primitive_vars = new_state.public_primitive_vars
            /\ new_state'.heap_vars = new_state.heap_vars
            /\ new_state'.heap_locations = new_state.heap_locations
            /\ get_taint_status(new_state', last'.id) = get_taint_status(new_state, last'.id)]_vars

\* a neutral value has been assigned to a variable that is public
C15_Witness ==
    /\ last.op = "stmt"
    /\ last.kind = "Assign"
    /\ last.val = None
    /\ raised = ""
    /\ last.id \in new_state.public_primitive_vars
    /\ DOMAIN new_state.heap_vars # {}

\* C16: neutral is the identity of the join of binary operations.  For every
\* expression e, a BinOp of a literal constant and e, in either operand order,
\* evaluates to the result of e (None for a constant, the location for a heap
\* alias), and on {UNTAINTED, TAINTED} lub is commutative, associative and
\* TAINTED-dominant.
C16_NeutralIdentity ==
    /\ \A e \in Exprs :
            LET x == eval(e, new_state)
            IN  x.exc = "" =>
                    /\ eval(BinOp(Constant, e), new_state).val = x.val
                    /\ eval(BinOp(e, Constant), new_state).val = x.val
    /\ \A x, y, z \in {UNTAINTED, TAINTED} :
            /\ lub(x, y) = lub(y, x)
            /\ lub(lub(x, y), z) = lub(x, lub(y, z))
            /\ lub(TAINTED, x) = TAINTED

C18_HeapTaintDomain ==
    /\ \A loc \in DOMAIN new_state.heap_locations :
            new_state.heap_locations[loc] \in {TAINTED, UNTAINTED, None}
    /\ \A v \in DOMAIN new_state.heap_vars :
            new_state.heap_vars[v] \in DOMAIN new_state.heap_locations

\* C19: unresolved locations are resolved by convergence.  In the exit
\* states round_robin_iteration returns, every heap location that a variable
\* aliases has a recorded taint of TAINTED or UNTAINTED, not None.
C19_NoUnresolvedAtFixpoint ==
    pc \in {"final", "done"} =>
        \A state \in StoredStates :
            \A v \in DOMAIN state.heap_vars :
                state.heap_locations[state.heap_vars[v]] \in {TAINTED, UNTAINTED}

\* the position in blocks of the block with this id
PositionOf(id) == CHOOSE k \in 1 .. Len(blocks) : blocks[k].id = id

\* C20: findings are produced only by the final pass.  No finding is recorded
\* during the fixpoint passes; each print statement contributes at most one
\* finding; the findings are in the order the blocks are traversed and, within
\* a block, in statement order; nothing but the debug dumps is yielded before
\* the final pass has ended; and the lines yielded at the end are the banner,
\* exactly once and if and only if there is a finding, then the findings in
\* that order.
C20_FindingsFromFinalPass ==
    /\ pc = "solve" => results = <<>>
    /\ \A k \in 1 .. Len(results) :
            BlockOf(results[k][1]).statements[results[k][2]].kind = "Print"
    /\ \A j, k \in 1 .. Len(results) :
            j < k =>
                \/ PositionOf(results[j][1]) < PositionOf(results[k][1])
                \/ results[j][1] = results[k][1] /\ results[j][2] < results[k][2]
    /\ pc # "done" => \A k \in 1 .. Len(output) : output[k][1] \notin {"banner", "finding"}
    /\ pc = "done" =>
            LET n == Len(results)
                dumps == Len(output) - n - (IF n > 0 THEN 1 ELSE 0)
            IN  /\ dumps >= 0
                /\ \A k \in 1 .. dumps : output[k][1] \notin {"banner", "finding"}
                /\ n > 0 => output[dumps + 1] = Banner
                /\ \A k \in 1 .. n : output[Len(output) - n + k] = Finding(results[k])

\* a finished debug run with findings in two blocks
C20_Witness ==
    /\ pc = "done"
    /\ debug
    /\ Len(results) >= 2
    /\ results[1][1] # results[Len(results)][1]
    /\ blocks[2].predecessors = <<"1", "3">>

====
